---- MODULE Spec2Model ----
(***************************************************************************)
(* Model of the youtube-backend REST service: the Mongoose collections     *)
(* (User, Video, Comment, Tweet, Like, Subscription), the Cloudinary       *)
(* object store, the request handlers that write them and the              *)
(* post("findOneAndDelete") hooks that implement the deletion cascades.    *)
(***************************************************************************)
EXTENDS Integers, Sequences, FiniteSets, Bags, TLC

\* ------------------------------------------------------------------ bounds
MaxUsers == 2
MaxVideos == 1
MaxComments == 3
MaxTweets == 2
MaxPlaylists == 1
MaxLikes == 2
MaxSubs == 2
MaxViews == 2
MaxInflight == 2
MaxAssets == 4

UserIds == 1..MaxUsers
VideoIds == 1..MaxVideos
CommentIds == 1..MaxComments
TweetIds == 1..MaxTweets
PlaylistIds == 1..MaxPlaylists

\* The comment ids that the requests of the cascade and toggle specifications
\* name: they leave the last id to the specifications about threads.
CascadeCommentIds == 1 .. (MaxComments - 1)

\* The same for tweets.
CascadeTweetIds == 1 .. (MaxTweets - 1)

\* "no value": an absent parentComment, an anonymous requester
None == 0

VARIABLES
  users,     \* User collection: _id -> [id, avatar, coverImage, watchHistory, refreshToken]
  videos,    \* Video collection: _id -> [id, owner, videoFile, thumbnail, views, isPublished]
  comments,  \* Comment collection: _id -> [id, owner, video, parentComment, replies]
  tweets,    \* Tweet collection: _id -> [id, owner]
  playlists, \* Playlist collection: _id -> [id, owner, videos]
  likes,     \* Like collection: bag of [likedBy, video, comment, tweet] documents
  subs,      \* Subscription collection: bag of [subscriber, channel] documents
  store,     \* Cloudinary: set of [public_id, resource_type] assets
  nextId,    \* next fresh ObjectId / asset name per kind
  inflight,  \* bag of requests suspended between two awaited database calls
  auth,      \* jsonwebtoken: [now, issued, accepted, loggedOut], see Init
  last       \* the last handler step and its response: [op, status]

dbvars == <<users, videos, comments, tweets, playlists, likes, subs, store>>
vars == <<users, videos, comments, tweets, playlists, likes, subs, store, nextId,
         inflight, auth, last>>

\* The collections and the object store as one value, threaded through the hooks.
DB == [users |-> users, videos |-> videos, comments |-> comments,
       tweets |-> tweets, likes |-> likes, subs |-> subs, store |-> store]

\* Restriction of a collection to the documents whose _id is not in ids.
Without(coll, ids) == [i \in (DOMAIN coll) \ ids |-> coll[i]]

\* Insertion of a document under a fresh _id.
With(coll, id, doc) == [i \in (DOMAIN coll) \cup {id} |-> IF i = id THEN doc ELSE coll[i]]

\* The orders in which an unsorted find() can return the documents of S.
Orders(S) ==
  LET n == Cardinality(S)
  IN {s \in [1..n -> S] : \A i, j \in 1..n : i # j => s[i] # s[j]}

\* ------------------------------------------------------------ object store
\* uploadOnCloudinary: the asset lands in folder "YouTube"; the response
\* carries its public_id (folder included) and its delivery url.
CloudFolder == "YouTube"

PublicId(name) == <<CloudFolder, name>>

AssetUrl(name, rtype) ==
  <<"res.cloudinary.com", rtype, "upload", CloudFolder, <<name, "ext">>>>

NoUrl == <<>>

uploadOnCloudinary(name, rtype) ==
  [public_id |-> PublicId(name), url |-> AssetUrl(name, rtype), resource_type |-> rtype]

Asset(resp) == [public_id |-> resp.public_id, resource_type |-> resp.resource_type]

\* cloudinary.uploader.destroy: removes the asset with exactly this public_id
\* and resource type; an unknown public_id is answered "not found".
Destroy(st, public_id, rtype, ok) ==
  IF ok THEN st \ {[public_id |-> public_id, resource_type |-> rtype]} ELSE st

\* a destroy whose failure is swallowed: the answer never carries an error
DestroyResultSilent(st, public_id, rtype, ok) ==
  IF [public_id |-> public_id, resource_type |-> rtype] \in st /\ ok
  THEN [error |-> FALSE, result |-> "ok"]
  ELSE [error |-> FALSE, result |-> "not found"]

DestroyResult(st, public_id, rtype, ok) ==
  IF ~ok THEN [error |-> TRUE, result |-> "error"]
  ELSE IF [public_id |-> public_id, resource_type |-> rtype] \in st
       THEN [error |-> FALSE, result |-> "ok"]
       ELSE [error |-> FALSE, result |-> "not found"]

\* deleteOnCloudinary(public_id, options = {resource_type: "image"})
deleteOnCloudinary(st, public_id, rtype, ok) ==
  IF public_id = <<>> THEN st ELSE Destroy(st, public_id, rtype, ok)

\* deleteOnCloudinaryWithUrl: the public id is the last "/" segment of the
\* url up to its first "."
PublicIdOfUrl(url) ==
  IF url = NoUrl THEN <<>>
  ELSE LET parts == url
           file == parts[Len(parts)]
       IN <<file[1]>>

deleteOnCloudinaryWithUrl(st, url, ok) ==
  IF PublicIdOfUrl(url) = <<>> THEN st
  ELSE Destroy(st, PublicIdOfUrl(url), "image", ok)

deleteOnCloudinaryWithUrlResult(st, url, ok) ==
  IF PublicIdOfUrl(url) = <<>> THEN [error |-> FALSE, result |-> "public id is required"]
  ELSE DestroyResult(st, PublicIdOfUrl(url), "image", ok)

\* ------------------------------------------------------------ query filters
\* A filter is a record of field/value pairs; a document matches when it has
\* every field of the filter with an equal value.  A Mongoose document passed
\* as the filter (Model.findOneAndDelete(doc)) is the record of all its fields.
Matches(doc, filter) == \A f \in DOMAIN filter : doc[f] = filter[f]

\* The _ids of the documents of a collection that match a filter.
Find(coll, filter) == {i \in DOMAIN coll : Matches(coll[i], filter)}

\* ------------------------------------------------------------------- likes
LikeDoc(u, kind, target) ==
  [likedBy |-> u,
   video |-> IF kind = "video" THEN target ELSE None,
   comment |-> IF kind = "comment" THEN target ELSE None,
   tweet |-> IF kind = "tweet" THEN target ELSE None]

\* Like.deleteMany(filter)
LikeDeleteMany(L, filter) ==
  LET keep == {k \in BagToSet(L) : ~Matches(k, filter)}
  IN [k \in keep |-> L[k]]

\* a findOneAndDelete that leaves the matched document in place
LikeFindOneAndDeleteKept(L, doc) == L

\* Like.findOneAndDelete({likedBy, <kind>: target}): removes one document
LikeFindOneAndDelete(L, doc) ==
  IF BagIn(doc, L) THEN L (-) SetToBag({doc}) ELSE L

\* an insert that is never refused
LikeCreateOkUnchecked(L, doc) == TRUE

\* Like.create(doc). The Like schema carries the uniqueness constraint per
\* (likedBy, target): a second document for the pair is a duplicate-key error.
LikeCreateOk(L, doc) == ~BagIn(doc, L)

LikeCreate(L, doc) ==
  IF LikeCreateOk(L, doc) THEN L (+) SetToBag({doc}) ELSE L

\* ----------------------------------------------------------- subscriptions
SubDoc(subscriber, channel) == [subscriber |-> subscriber, channel |-> channel]

SubFindOneAndDelete(S, doc) ==
  IF BagIn(doc, S) THEN S (-) SetToBag({doc}) ELSE S

\* an insert that is never refused
SubCreateOkUnchecked(S, doc) == TRUE

\* Subscription.create(doc). The Subscription schema carries the uniqueness
\* constraint per (subscriber, channel).
SubCreateOk(S, doc) == ~BagIn(doc, S)

SubCreate(S, doc) ==
  IF SubCreateOk(S, doc) THEN S (+) SetToBag({doc}) ELSE S

\* Subscription.deleteMany({$or: filters})
SubDeleteMany(S, filters) ==
  LET keep == {k \in BagToSet(S) : \A f \in filters : ~Matches(k, f)}
  IN [k \in keep |-> S[k]]

\* ----------------------------------------------------------- comment hook
\* a hook that leaves the other documents alone
commentSchemaPostFindOneAndDeleteNoop(db, comment) == db

\* commentSchema.post("findOneAndDelete"): comment is the removed document.
commentSchemaPostFindOneAndDelete(db, comment) ==
  LET likes1 == LikeDeleteMany(db.likes,
                  [comment |-> comment.id])
      comments1 ==
        IF comment.parentComment # None /\ comment.parentComment \in DOMAIN db.comments
        THEN [db.comments EXCEPT ![comment.parentComment].replies = @ \ {comment.id}]
        ELSE db.comments
      comments2 ==
        IF comment.replies # {}
        THEN Without(comments1, comment.replies)   \* deleteMany: no hook runs
        ELSE comments1
  IN [db EXCEPT !.likes = likes1, !.comments = comments2]

\* Comment.findOneAndDelete(filter) followed by its post hook; a filter that
\* matches nothing hands null to the hook, which then does nothing.
CommentFindOneAndDelete(db, filter) ==
  LET found == Find(db.comments, filter)
  IN IF found = {} THEN db
     ELSE LET id == CHOOSE i \in found : TRUE
          IN commentSchemaPostFindOneAndDelete(
               [db EXCEPT !.comments = Without(@, {id})], db.comments[id])

\* for (const comment of commentsToDelete) await Comment.findByIdAndDelete(comment._id)
RECURSIVE DeleteCommentsById(_, _)
DeleteCommentsById(db, order) ==
  IF order = <<>> THEN db
  ELSE DeleteCommentsById(CommentFindOneAndDelete(db, [id |-> Head(order)]), Tail(order))

\* for (const comment of commentTodelete) await Comment.findOneAndDelete(comment)
\* snap holds the documents as find() returned them.
RECURSIVE DeleteCommentsByDoc(_, _, _)
DeleteCommentsByDoc(db, snap, order) ==
  IF order = <<>> THEN db
  ELSE DeleteCommentsByDoc(CommentFindOneAndDelete(db, snap[Head(order)]), snap, Tail(order))

\* ------------------------------------------------------------- video hook
\* User.findOneAndUpdate({_id: owner}, {$pull: {watchHistory: videoId}})
WatchHistoryPullFilter(us, video) == {u \in DOMAIN us : u = video.owner}

WatchHistoryPull(us, video) ==
  [u \in DOMAIN us |->
     IF u \in WatchHistoryPullFilter(us, video)
     THEN [us[u] EXCEPT !.watchHistory = @ \ {video.id}]
     ELSE us[u]]

\* videoSchema.post("findOneAndDelete") with the comments visited in one order.
videoHookInOrder(db, video, order, ok) ==
  LET db1 == DeleteCommentsById(db, order)
      likes2 == LikeDeleteMany(db1.likes,
                  [video |-> video.id])
      users3 == WatchHistoryPull(db1.users, video)
      store4 == deleteOnCloudinary(db1.store, video.videoFile.fileName, "video", ok)
      store5 == deleteOnCloudinary(store4, video.thumbnail.fileName, "image", ok)
  IN [db1 EXCEPT !.likes = likes2, !.users = users3, !.store = store5]

\* videoSchema.post("findOneAndDelete"): the states it can leave, one per
\* order in which Comment.find({video}) can list the comments.
videoSchemaPostFindOneAndDelete(db, video, ok) ==
  {videoHookInOrder(db, video, o, ok) :
     o \in Orders(Find(db.comments, [video |-> video.id]))}

\* a deletion that is undone when the object store fails
VideoFindOneAndDeleteRollback(db, filter, ok) ==
  LET found == Find(db.videos, filter)
  IN IF found = {} \/ ~ok THEN {db}
     ELSE LET id == CHOOSE i \in found : TRUE
          IN videoSchemaPostFindOneAndDelete(
               [db EXCEPT !.videos = Without(@, {id})], db.videos[id], ok)

\* Video.findOneAndDelete(filter) followed by its post hook.
VideoFindOneAndDelete(db, filter, ok) ==
  LET found == Find(db.videos, filter)
  IN IF found = {} THEN {db}
     ELSE LET id == CHOOSE i \in found : TRUE
          IN videoSchemaPostFindOneAndDelete(
               [db EXCEPT !.videos = Without(@, {id})], db.videos[id], ok)

\* for (const video of videoToDelete) await Video.findOneAndDelete(video)
RECURSIVE DeleteVideosByDoc(_, _, _, _)
DeleteVideosByDoc(dbs, snap, order, ok) ==
  IF order = <<>> THEN dbs
  ELSE DeleteVideosByDoc(
         UNION {VideoFindOneAndDelete(d, snap[Head(order)], ok) : d \in dbs},
         snap, Tail(order), ok)

\* ------------------------------------------------------------- tweet hook
\* a hook that leaves the likes alone
tweetSchemaPostFindOneAndDeleteNoop(db, tweet) == db

\* tweetSchema.post("findOneAndDelete")
tweetSchemaPostFindOneAndDelete(db, tweet) ==
  [db EXCEPT !.likes = LikeDeleteMany(@,
     [tweet |-> tweet.id])]

TweetFindOneAndDelete(db, filter) ==
  LET found == Find(db.tweets, filter)
  IN IF found = {} THEN db
     ELSE LET id == CHOOSE i \in found : TRUE
          IN tweetSchemaPostFindOneAndDelete(
               [db EXCEPT !.tweets = Without(@, {id})], db.tweets[id])

RECURSIVE DeleteTweetsByDoc(_, _, _)
DeleteTweetsByDoc(db, snap, order) ==
  IF order = <<>> THEN db
  ELSE DeleteTweetsByDoc(TweetFindOneAndDelete(db, snap[Head(order)]), snap, Tail(order))

\* -------------------------------------------------------------- user hook
\* userSchema.post("findOneAndDelete"): the states it can leave.
userSchemaPostFindOneAndDelete(db, user, ok) ==
  LET afterVideos ==
        UNION {DeleteVideosByDoc({db}, db.videos, o, ok) :
                 o \in Orders(Find(db.videos, [owner |-> user.id]))}
      afterLikes ==
        {[d EXCEPT !.likes = LikeDeleteMany(@, [likedBy |-> user.id])] :
           d \in afterVideos}
      afterComments ==
        UNION {{DeleteCommentsByDoc(d, d.comments, o) :
                  o \in Orders(Find(d.comments, [owner |-> user.id]))} :
               d \in afterLikes}
      afterTweets ==
        UNION {{DeleteTweetsByDoc(d, d.tweets, o) :
                  o \in Orders(Find(d.tweets, [owner |-> user.id]))} :
               d \in afterComments}
  IN {[d EXCEPT !.subs = SubDeleteMany(@,
         {[subscriber |-> user.id], [channel |-> user.id]})] :
        d \in afterTweets}

\* User.findOneAndDelete({_id}) followed by its post hook.
UserFindOneAndDelete(db, filter, ok) ==
  LET found == Find(db.users, filter)
  IN IF found = {} THEN {db}
     ELSE LET id == CHOOSE i \in found : TRUE
          IN userSchemaPostFindOneAndDelete(
               [db EXCEPT !.users = Without(@, {id})], db.users[id], ok)

\* ------------------------------------------------------------ initial state
\* A request parameter that is not the text of an ObjectId.
Malformed == -1

\* mongoose's isValidObjectId on a request parameter
isValidObjectId(id) == id # Malformed

EmptyColl == [i \in {} |-> None]

\* userSchema.methods.generateRefreshToken: jwt.sign({_id}, secret, {expiresIn})
\* is a function of the user's _id and of the second in which it is signed.
generateRefreshToken(userId, now) == [user |-> userId, iat |-> now]

\* a user document without the refreshToken field; a request without the cookie
NoToken == [user |-> None, iat |-> None]

Resp(op, status) == [op |-> op, status |-> status]

\* status of a handler step that has not answered yet
Pending == 0

Init ==
  /\ users = EmptyColl
  /\ videos = EmptyColl
  /\ comments = EmptyColl
  /\ tweets = EmptyColl
  /\ playlists = EmptyColl
  /\ likes = EmptyBag
  /\ subs = EmptyBag
  /\ store = {}
  /\ nextId = [user |-> 1, video |-> 1, comment |-> 1, tweet |-> 1, playlist |-> 1,
               asset |-> 1]
  /\ inflight = EmptyBag
  \* now: the clock jwt.sign reads, in seconds; issued: the refresh tokens
  \* handed out, in order; accepted: the refresh tokens refreshAccessToken
  \* answered with new tokens, in order; loggedOut: the users whose last
  \* completed login or logout is a logout
  /\ auth = [now |-> 0, issued |-> <<>>, accepted |-> <<>>, loggedOut |-> {}]
  /\ last = Resp("init", Pending)

SetDB(d) ==
  /\ users' = d.users
  /\ videos' = d.videos
  /\ comments' = d.comments
  /\ tweets' = d.tweets
  /\ likes' = d.likes
  /\ subs' = d.subs
  /\ store' = d.store

\* --------------------------------------------------------- creating handlers
registerUser(withCover) ==
  /\ nextId.user <= MaxUsers
  /\ LET id == nextId.user
         avatar == uploadOnCloudinary(nextId.asset, "image")
         coverImage == uploadOnCloudinary(nextId.asset + 1, "image")
     IN /\ users' = With(users, id,
                      [id |-> id,
                       avatar |-> avatar.url,
                       coverImage |-> IF withCover THEN coverImage.url ELSE NoUrl,
                       watchHistory |-> {},
                       refreshToken |-> NoToken])
        /\ store' = store \cup {Asset(avatar)}
                          \cup (IF withCover THEN {Asset(coverImage)} ELSE {})
        /\ nextId' = [nextId EXCEPT !.user = @ + 1,
                                    !.asset = @ + (IF withCover THEN 2 ELSE 1)]
        /\ last' = Resp("registerUser", 201)
  /\ UNCHANGED <<playlists, videos, comments, tweets, likes, subs, inflight, auth>>

\* updateAvatarImage: upload, User.findByIdAndUpdate($set avatar), then
\* deleteOnCloudinaryWithUrl of the url the user had before; the result of
\* the delete is only logged.
updateAvatarImage(u, ok) ==
  /\ u \in DOMAIN users
  /\ nextId.asset <= MaxAssets
  /\ LET avatar == uploadOnCloudinary(nextId.asset, "image")
         oldUrl == users[u].avatar
     IN /\ users' = [users EXCEPT ![u].avatar = avatar.url]
        /\ store' = deleteOnCloudinaryWithUrl(store \cup {Asset(avatar)}, oldUrl, ok)
  /\ nextId' = [nextId EXCEPT !.asset = @ + 1]
  /\ last' = Resp("updateAvatarImage", 200)
  /\ UNCHANGED <<playlists, videos, comments, tweets, likes, subs, inflight, auth>>

\* updateUserCoverImage: the same for the cover image; the delete is not
\* awaited.
updateUserCoverImage(u, ok) ==
  /\ u \in DOMAIN users
  /\ nextId.asset <= MaxAssets
  /\ LET coverImage == uploadOnCloudinary(nextId.asset, "image")
         oldUrl == users[u].coverImage
     IN /\ users' = [users EXCEPT ![u].coverImage = coverImage.url]
        /\ store' = deleteOnCloudinaryWithUrl(store \cup {Asset(coverImage)}, oldUrl, ok)
  /\ nextId' = [nextId EXCEPT !.asset = @ + 1]
  /\ last' = Resp("updateUserCoverImage", 200)
  /\ UNCHANGED <<playlists, videos, comments, tweets, likes, subs, inflight, auth>>

publishAVideo(u) ==
  /\ u \in DOMAIN users
  /\ nextId.video <= MaxVideos
  /\ LET id == nextId.video
         videoFile == uploadOnCloudinary(nextId.asset, "video")
         thumbnail == uploadOnCloudinary(nextId.asset + 1, "image")
     IN /\ videos' = With(videos, id,
                       [id |-> id,
                        owner |-> u,
                        videoFile |-> [fileName |-> videoFile.public_id, url |-> videoFile.url],
                        thumbnail |-> [fileName |-> thumbnail.public_id, url |-> thumbnail.url],
                        views |-> 0,
                        isPublished |-> TRUE])
        /\ store' = store \cup {Asset(videoFile), Asset(thumbnail)}
        /\ nextId' = [nextId EXCEPT !.video = @ + 1, !.asset = @ + 2]
        /\ last' = Resp("publishAVideo", 200)
  /\ UNCHANGED <<playlists, users, comments, tweets, likes, subs, inflight, auth>>

\* viewer = None: no valid access token came with the request
getVideoById(viewer, videoId) ==
  /\ viewer \in DOMAIN users \cup {None}
  /\ videoId \in VideoIds
  /\ videoId \in DOMAIN videos => videos[videoId].views < MaxViews
  /\ users' = IF viewer # None
              THEN [users EXCEPT ![viewer].watchHistory = @ \cup {videoId}]
              ELSE users
  /\ IF videoId \in DOMAIN videos
     THEN /\ videos' = [videos EXCEPT ![videoId].views = @ + 1]
          /\ last' = Resp("getVideoById", 200)
     ELSE /\ videos' = videos
          /\ last' = Resp("getVideoById", 400)
  /\ UNCHANGED <<playlists, comments, tweets, likes, subs, store, nextId, inflight, auth>>

\* a save that writes the whole loaded document back
VideoSaveWhole(stored, snap, path) == snap

\* document.save() of a loaded document with one modified path: the update
\* sets that path and leaves the other fields of the stored document alone.
VideoSave(stored, snap, path) == [stored EXCEPT ![path] = snap[path]]

\* a request suspended with the document it has loaded
RequestWith(op, actor, target, snap) ==
  [op |-> op, actor |-> actor, target |-> target, snap |-> snap]

\* togglePublishStatus up to Video.findOne({_id, owner})
togglePublishStatusFind(u, videoId) ==
  /\ u \in DOMAIN users
  /\ videoId \in VideoIds
  /\ IF Find(videos, [id |-> videoId, owner |-> u]) = {}
     THEN /\ inflight' = inflight
          /\ last' = Resp("togglePublishStatus", 400)
     ELSE /\ BagCardinality(inflight) < MaxInflight
          /\ inflight' = inflight (+) SetToBag({RequestWith("togglePublishStatus", u,
                                                   videoId, videos[videoId])})
          /\ last' = Resp("togglePublishStatus", Pending)
  /\ UNCHANGED <<playlists, users, videos, comments, tweets, likes, subs, store, nextId, auth>>

\* togglePublishStatus from video.isPublished = !video.isPublished to the
\* response; saving a document that is gone fails.
togglePublishStatusSave(r) ==
  /\ BagIn(r, inflight)
  /\ r.op = "togglePublishStatus"
  /\ IF r.target \in DOMAIN videos
     THEN /\ videos' = [videos EXCEPT ![r.target] =
                          VideoSave(@, [r.snap EXCEPT !.isPublished = ~@], "isPublished")]
          /\ last' = Resp(r.op, 200)
     ELSE /\ videos' = videos
          /\ last' = Resp(r.op, 500)
  /\ inflight' = inflight (-) SetToBag({r})
  /\ UNCHANGED <<playlists, users, comments, tweets, likes, subs, store, nextId, auth>>

\* The $match stage of getAllVideos: the videos whose owner is the userId of
\* the query string, or that are published and whose title or description
\* matches the query text (hits: the videos whose text matches; without a
\* query text every video does).
getAllVideosMatch(vs, userId, hits) ==
  {v \in DOMAIN vs :
     \/ vs[v].owner = userId
     \/ (vs[v].isPublished /\ v \in hits)}

\* getAllVideos: requester is the caller, userId the query parameter
getAllVideos(requester, userId, hits) ==
  /\ requester \in DOMAIN users \cup {None}
  /\ userId \in UserIds \cup {None, Malformed}
  /\ last' = Resp("getAllVideos",
               IF userId # None /\ ~isValidObjectId(userId) THEN 400
               ELSE IF getAllVideosMatch(videos, userId, hits) = {} THEN 404
               ELSE 200)
  /\ UNCHANGED <<dbvars, nextId, inflight, auth>>

updateVideoFilter(videoId, u) == [id |-> videoId, owner |-> u]

\* updateVideo: title and description are not part of the state; with a
\* thumbnail file the new image is uploaded first, then the video is updated
\* and the thumbnail it had before is destroyed.
updateVideo(u, videoId, withThumbnail, ok) ==
  /\ u \in DOMAIN users
  /\ videoId \in VideoIds
  /\ LET found == Find(videos, updateVideoFilter(videoId, u))
         thumbnail == uploadOnCloudinary(nextId.asset, "image")
     IN IF withThumbnail
        THEN /\ nextId.asset <= MaxAssets
             /\ nextId' = [nextId EXCEPT !.asset = @ + 1]
             /\ IF found = {}
                THEN /\ store' = store \cup {Asset(thumbnail)}
                     /\ videos' = videos
                     /\ last' = Resp("updateVideo", 400)
                ELSE /\ videos' = [videos EXCEPT ![videoId].thumbnail =
                                     [fileName |-> thumbnail.public_id, url |-> thumbnail.url]]
                     /\ store' = deleteOnCloudinary(store \cup {Asset(thumbnail)},
                                    videos[videoId].thumbnail.fileName, "image", ok)
                     /\ last' = Resp("updateVideo",
                                  IF DestroyResult(store, videos[videoId].thumbnail.fileName,
                                                   "image", ok).error
                                  THEN 500 ELSE 200)
        ELSE /\ UNCHANGED <<videos, store, nextId>>
             /\ last' = Resp("updateVideo", IF found = {} THEN 400 ELSE 200)
  /\ UNCHANGED <<playlists, users, comments, tweets, likes, subs, inflight, auth>>

addComment(u, videoId) ==
  /\ u \in DOMAIN users
  /\ videoId \in VideoIds
  /\ IF videoId \notin DOMAIN videos
     THEN /\ last' = Resp("addComment", 400)
          /\ UNCHANGED <<comments, nextId>>
     ELSE /\ nextId.comment <= MaxComments
          /\ comments' = With(comments, nextId.comment,
                           [id |-> nextId.comment, owner |-> u, video |-> videoId,
                            parentComment |-> None, replies |-> {}])
          /\ nextId' = [nextId EXCEPT !.comment = @ + 1]
          /\ last' = Resp("addComment", 201)
  /\ UNCHANGED <<playlists, users, videos, tweets, likes, subs, store, inflight, auth>>

\* addComment as its two awaited database calls, for the specifications in
\* which requests interleave.
\* Video.findById(videoId)
addCommentFind(u, videoId) ==
  /\ u \in DOMAIN users
  /\ videoId \in VideoIds
  /\ IF videoId \notin DOMAIN videos
     THEN /\ inflight' = inflight
          /\ last' = Resp("addComment", 400)
     ELSE /\ BagCardinality(inflight) < MaxInflight
          /\ inflight' = inflight (+) SetToBag({RequestWith("addComment", u, videoId,
                                                   videos[videoId])})
          /\ last' = Resp("addComment", Pending)
  /\ UNCHANGED <<users, videos, comments, tweets, playlists, likes, subs, store, nextId, auth>>

\* Comment.create({content, owner, video: video._id}) with the video as it
\* was loaded
addCommentCreate(r) ==
  /\ BagIn(r, inflight)
  /\ r.op = "addComment"
  /\ nextId.comment <= MaxComments
  /\ comments' = With(comments, nextId.comment,
                   [id |-> nextId.comment, owner |-> r.actor, video |-> r.snap.id,
                    parentComment |-> None, replies |-> {}])
  /\ nextId' = [nextId EXCEPT !.comment = @ + 1]
  /\ inflight' = inflight (-) SetToBag({r})
  /\ last' = Resp(r.op, 201)
  /\ UNCHANGED <<users, videos, tweets, playlists, likes, subs, store, auth>>

addReplyToComment(u, parentCommentId) ==
  /\ u \in DOMAIN users
  /\ parentCommentId \in CommentIds
  /\ IF parentCommentId \notin DOMAIN comments
     THEN /\ last' = Resp("addReplyToComment", 404)
          /\ UNCHANGED <<comments, nextId>>
     ELSE /\ nextId.comment <= MaxComments
          /\ LET parentComment == comments[parentCommentId]
                 reply == [id |-> nextId.comment, owner |-> u,
                           video |-> parentComment.video,
                           parentComment |-> parentCommentId, replies |-> {}]
             IN comments' = With([comments EXCEPT ![parentCommentId].replies =
                                    @ \cup {reply.id}], reply.id, reply)
          /\ nextId' = [nextId EXCEPT !.comment = @ + 1]
          /\ last' = Resp("addReplyToComment", 201)
  /\ UNCHANGED <<playlists, users, videos, tweets, likes, subs, store, inflight, auth>>

\* addReplyToComment as its three awaited database calls, for the
\* specifications in which requests interleave.
\* Comment.findById(parentCommentId)
addReplyFind(u, parentCommentId) ==
  /\ u \in DOMAIN users
  /\ parentCommentId \in CommentIds
  /\ IF parentCommentId \notin DOMAIN comments
     THEN /\ inflight' = inflight
          /\ last' = Resp("addReplyToComment", 404)
     ELSE /\ BagCardinality(inflight) < MaxInflight
          /\ inflight' = inflight (+) SetToBag({RequestWith("addReplyToComment", u,
                             parentCommentId,
                             [parentComment |-> comments[parentCommentId], reply |-> None])})
          /\ last' = Resp("addReplyToComment", Pending)
  /\ UNCHANGED <<users, videos, comments, tweets, playlists, likes, subs, store, nextId, auth>>

\* reply.save(): the reply takes the video of the parent as it was loaded
addReplySave(r) ==
  /\ BagIn(r, inflight)
  /\ r.op = "addReplyToComment"
  /\ r.snap.reply = None
  /\ nextId.comment <= MaxComments
  /\ LET reply == [id |-> nextId.comment, owner |-> r.actor,
                   video |-> r.snap.parentComment.video,
                   parentComment |-> r.target, replies |-> {}]
     IN /\ comments' = With(comments, reply.id, reply)
        /\ inflight' = (inflight (-) SetToBag({r}))
                         (+) SetToBag({[r EXCEPT !.snap.reply = reply.id]})
  /\ nextId' = [nextId EXCEPT !.comment = @ + 1]
  /\ last' = Resp(r.op, Pending)
  /\ UNCHANGED <<users, videos, tweets, playlists, likes, subs, store, auth>>

\* parentComment.replies.push(reply._id); parentComment.save(): the push
\* reaches the stored parent; saving a parent that is gone fails.
addReplyPush(r) ==
  /\ BagIn(r, inflight)
  /\ r.op = "addReplyToComment"
  /\ r.snap.reply # None
  /\ IF r.target \in DOMAIN comments
     THEN /\ comments' = [comments EXCEPT ![r.target].replies = @ \cup {r.snap.reply}]
          /\ last' = Resp(r.op, 201)
     ELSE /\ comments' = comments
          /\ last' = Resp(r.op, 500)
  /\ inflight' = inflight (-) SetToBag({r})
  /\ UNCHANGED <<users, videos, tweets, playlists, likes, subs, store, nextId, auth>>

createTweet(u) ==
  /\ u \in DOMAIN users
  /\ nextId.tweet <= MaxTweets
  /\ tweets' = With(tweets, nextId.tweet, [id |-> nextId.tweet, owner |-> u])
  /\ nextId' = [nextId EXCEPT !.tweet = @ + 1]
  /\ last' = Resp("createTweet", 200)
  /\ UNCHANGED <<playlists, users, videos, comments, likes, subs, store, inflight, auth>>

\* ------------------------------------------------------------- like toggles
LikeOps == {"toggleVideoLike", "toggleCommentLike", "toggleTweetLike"}

KindOf(op) ==
  IF op = "toggleVideoLike" THEN "video"
  ELSE IF op = "toggleCommentLike" THEN "comment" ELSE "tweet"

Request(op, actor, target) == [op |-> op, actor |-> actor, target |-> target]

\* number of suspended requests of the given handlers
Suspended(ops) ==
  BagCardinality([r \in {x \in BagToSet(inflight) : x.op \in ops} |-> inflight[r]])

\* First half of a like toggle: Like.findOneAndDelete({likedBy, <kind>: id}).
\* A removed document ends the request; otherwise the request is suspended
\* in front of Like.create.
toggleLikeFind(op, u, target) ==
  /\ u \in DOMAIN users
  /\ LET doc == LikeDoc(u, KindOf(op), target)
     IN IF BagIn(doc, likes)
        THEN /\ likes' = LikeFindOneAndDelete(likes, doc)
             /\ inflight' = inflight
             /\ last' = Resp(op, 200)
        ELSE /\ BagCardinality(inflight) < MaxInflight
             /\ BagCardinality(likes) + Suspended(LikeOps) < MaxLikes
             /\ likes' = likes
             /\ inflight' = inflight (+) SetToBag({Request(op, u, target)})
             /\ last' = Resp(op, Pending)
  /\ UNCHANGED <<playlists, users, videos, comments, tweets, subs, store, nextId, auth>>

toggleVideoLike(u, videoId) ==
  /\ videoId \in VideoIds
  /\ toggleLikeFind("toggleVideoLike", u, videoId)

toggleCommentLike(u, commentId) ==
  /\ commentId \in CommentIds
  /\ toggleLikeFind("toggleCommentLike", u, commentId)

toggleTweetLike(u, tweetId) ==
  /\ tweetId \in TweetIds
  /\ toggleLikeFind("toggleTweetLike", u, tweetId)

\* Second half of a like toggle: Like.create({<kind>: id, likedBy}); a
\* rejected insert surfaces as a server error.
toggleLikeCreate(r) ==
  /\ BagIn(r, inflight)
  /\ r.op \in LikeOps
  /\ LET doc == LikeDoc(r.actor, KindOf(r.op), r.target)
     IN /\ likes' = LikeCreate(likes, doc)
        /\ last' = Resp(r.op, IF LikeCreateOk(likes, doc) THEN 200 ELSE 500)
  /\ inflight' = inflight (-) SetToBag({r})
  /\ UNCHANGED <<playlists, users, videos, comments, tweets, subs, store, nextId, auth>>

\* The whole handler run without interleaving, as a function of the collection.
toggleLikeRun(L, doc) ==
  IF BagIn(doc, L) THEN LikeFindOneAndDelete(L, doc) ELSE LikeCreate(L, doc)

\* ------------------------------------------------------ subscription toggle
\* A JavaScript ObjectId is a heap object: hex is its value, ref its identity.
ReqUserId(u) == [hex |-> u, ref |-> "req.user._id"]

NewObjectId(hex) == [hex |-> hex, ref |-> "new ObjectId"]

\* a === b on two objects compares identities
StrictEquals(a, b) == a.ref = b.ref

\* First half of toggleSubscription: the self-subscription check and
\* Subscription.findOneAndDelete({channel, subscriber}).
toggleSubscription(u, channelId) ==
  /\ u \in DOMAIN users
  /\ channelId \in UserIds
  /\ LET doc == SubDoc(u, channelId)
     IN IF StrictEquals(ReqUserId(u), NewObjectId(channelId))
        THEN /\ last' = Resp("toggleSubscription", 400)
             /\ UNCHANGED <<subs, inflight>>
        ELSE IF BagIn(doc, subs)
        THEN /\ subs' = SubFindOneAndDelete(subs, doc)
             /\ inflight' = inflight
             /\ last' = Resp("toggleSubscription", 200)
        ELSE /\ BagCardinality(inflight) < MaxInflight
             /\ BagCardinality(subs) + Suspended({"toggleSubscription"}) < MaxSubs
             /\ subs' = subs
             /\ inflight' = inflight (+) SetToBag({Request("toggleSubscription", u, channelId)})
             /\ last' = Resp("toggleSubscription", Pending)
  /\ UNCHANGED <<playlists, users, videos, comments, tweets, likes, store, nextId, auth>>

\* Second half of toggleSubscription: Subscription.create({channel, subscriber}).
toggleSubscriptionCreate(r) ==
  /\ BagIn(r, inflight)
  /\ r.op = "toggleSubscription"
  /\ LET doc == SubDoc(r.actor, r.target)
     IN /\ subs' = SubCreate(subs, doc)
        /\ last' = Resp(r.op, IF SubCreateOk(subs, doc) THEN 200 ELSE 500)
  /\ inflight' = inflight (-) SetToBag({r})
  /\ UNCHANGED <<playlists, users, videos, comments, tweets, likes, store, nextId, auth>>

\* ----------------------------------------------------------------- sessions
MaxClock == 2
MaxIssued == 3

\* one second passes
Tick ==
  /\ auth.now < MaxClock
  /\ auth' = [auth EXCEPT !.now = @ + 1]
  /\ UNCHANGED <<dbvars, nextId, inflight, last>>

\* generateAccessAndRefreshTokens: User.findById, generateRefreshToken,
\* user.refreshToken = refreshToken, user.save().  The user collection it
\* leaves; a user that is gone makes it throw.
generateAccessAndRefreshTokensOk(us, userId) == userId \in DOMAIN us

generateAccessAndRefreshTokens(us, userId, now) ==
  IF generateAccessAndRefreshTokensOk(us, userId)
  THEN [us EXCEPT ![userId].refreshToken = generateRefreshToken(userId, now)]
  ELSE us

\* loginUser: the user named in the body and whether the password matches
loginUser(u, passwordOk) ==
  /\ u \in UserIds
  /\ IF u \notin DOMAIN users
     THEN /\ last' = Resp("loginUser", 404)
          /\ UNCHANGED <<users, auth>>
     ELSE IF ~passwordOk
     THEN /\ last' = Resp("loginUser", 401)
          /\ UNCHANGED <<users, auth>>
     ELSE /\ Len(auth.issued) < MaxIssued
          /\ users' = generateAccessAndRefreshTokens(users, u, auth.now)
          /\ auth' = [auth EXCEPT !.issued = Append(@, generateRefreshToken(u, auth.now)),
                                  !.loggedOut = @ \ {u}]
          /\ last' = Resp("loginUser", 200)
  /\ UNCHANGED <<videos, comments, tweets, playlists, likes, subs, store, nextId, inflight>>

\* a logout that leaves the stored token in place
logoutUserUpdateKept(user) == user

\* User.findByIdAndUpdate(req.user._id, {$unset: {refreshToken: 1}})
logoutUserUpdate(user) == [user EXCEPT !.refreshToken = NoToken]

logoutUser(u) ==
  /\ u \in DOMAIN users
  /\ users' = [users EXCEPT ![u] = logoutUserUpdate(@)]
  /\ auth' = [auth EXCEPT !.loggedOut = @ \cup {u}]
  /\ last' = Resp("logoutUser", 200)
  /\ UNCHANGED <<videos, comments, tweets, playlists, likes, subs, store, nextId, inflight>>

\* refreshAccessToken up to the comparison with the stored token: the status
\* it throws, or Pending when the incoming token is the stored one.  The
\* tokens presented are tokens this server signed, within their lifetime, so
\* jwt.verify returns their payload.
refreshAccessTokenCheck(us, incomingRefreshToken) ==
  IF incomingRefreshToken = NoToken THEN 401
  ELSE IF incomingRefreshToken.user \notin DOMAIN us THEN 401
  ELSE IF incomingRefreshToken # us[incomingRefreshToken.user].refreshToken THEN 401
  ELSE Pending

\* refreshAccessToken run without interleaving
refreshAccessToken(incomingRefreshToken) ==
  /\ IF refreshAccessTokenCheck(users, incomingRefreshToken) # Pending
     THEN /\ last' = Resp("refreshAccessToken", refreshAccessTokenCheck(users, incomingRefreshToken))
          /\ UNCHANGED <<users, auth>>
     ELSE /\ Len(auth.issued) < MaxIssued
          /\ users' = generateAccessAndRefreshTokens(users, incomingRefreshToken.user, auth.now)
          /\ auth' = [auth EXCEPT
                        !.issued = Append(@, generateRefreshToken(incomingRefreshToken.user,
                                                                  auth.now)),
                        !.accepted = Append(@, incomingRefreshToken)]
          /\ last' = Resp("refreshAccessToken", 200)
  /\ UNCHANGED <<videos, comments, tweets, playlists, likes, subs, store, nextId, inflight>>

\* refreshAccessToken as its awaited database calls, for the specifications
\* in which requests interleave.
\* jwt.verify, User.findById, the comparison with user.refreshToken
refreshAccessTokenFind(incomingRefreshToken) ==
  /\ IF refreshAccessTokenCheck(users, incomingRefreshToken) # Pending
     THEN /\ inflight' = inflight
          /\ last' = Resp("refreshAccessToken", refreshAccessTokenCheck(users, incomingRefreshToken))
     ELSE /\ BagCardinality(inflight) < MaxInflight
          /\ inflight' = inflight (+) SetToBag({RequestWith("refreshAccessToken",
                             incomingRefreshToken.user, incomingRefreshToken.user,
                             incomingRefreshToken)})
          /\ last' = Resp("refreshAccessToken", Pending)
  /\ UNCHANGED <<dbvars, nextId, auth>>

\* generateAccessAndRefreshTokens(user._id) and the response
refreshAccessTokenGenerate(r) ==
  /\ BagIn(r, inflight)
  /\ r.op = "refreshAccessToken"
  /\ IF generateAccessAndRefreshTokensOk(users, r.actor)
     THEN /\ Len(auth.issued) < MaxIssued
          /\ users' = generateAccessAndRefreshTokens(users, r.actor, auth.now)
          /\ auth' = [auth EXCEPT !.issued = Append(@, generateRefreshToken(r.actor, auth.now)),
                                  !.accepted = Append(@, r.snap)]
          /\ last' = Resp(r.op, 200)
     ELSE /\ last' = Resp(r.op, 500)
          /\ UNCHANGED <<users, auth>>
  /\ inflight' = inflight (-) SetToBag({r})
  /\ UNCHANGED <<videos, comments, tweets, playlists, likes, subs, store, nextId>>

\* --------------------------------------------------------------- validation
\* What a request body can hold for the required text fields: every field
\* given, one field given as the empty string, or one field left out.
BodyKinds == {"complete", "blank", "absent"}

\* registerUser from the request body on.  [..].some(f => f?.trim() === "")
\* rejects an empty field only: a field that was left out passes, the files
\* are uploaded, and then username.toLowerCase() or User.create's schema
\* validation throws.  That error is not an ApiError; the status it is
\* answered with is chosen by the error middleware.
registerUserRequest(body, withCover) ==
  /\ body \in BodyKinds
  /\ IF body = "complete" THEN registerUser(withCover)
     ELSE IF body = "blank"
     THEN /\ last' = Resp("registerUser", 400)
          /\ UNCHANGED <<dbvars, playlists, nextId, inflight, auth>>
     ELSE /\ nextId.asset + 1 <= MaxAssets
          /\ LET avatar == uploadOnCloudinary(nextId.asset, "image")
                 coverImage == uploadOnCloudinary(nextId.asset + 1, "image")
             IN /\ store' = store \cup {Asset(avatar)}
                                  \cup (IF withCover THEN {Asset(coverImage)} ELSE {})
                /\ nextId' = [nextId EXCEPT !.asset = @ + (IF withCover THEN 2 ELSE 1)]
          /\ \E status \in {400, 500} : last' = Resp("registerUser", status)
          /\ UNCHANGED <<users, videos, comments, tweets, likes, subs, playlists, inflight, auth>>

\* publishAVideo from the request body on: !title || !description rejects a
\* field that is empty or left out, and a request without its two files is
\* rejected, both before the uploads.
publishAVideoRequest(u, body, withFiles) ==
  /\ u \in DOMAIN users
  /\ body \in BodyKinds
  /\ IF body = "complete" /\ withFiles THEN publishAVideo(u)
     ELSE /\ last' = Resp("publishAVideo", 400)
          /\ UNCHANGED <<dbvars, playlists, nextId, inflight, auth>>

\* getVideoById from the request parameter on
getVideoByIdRequest(viewer, videoId) ==
  /\ viewer \in DOMAIN users \cup {None}
  /\ IF isValidObjectId(videoId) THEN getVideoById(viewer, videoId)
     ELSE /\ last' = Resp("getVideoById", 400)
          /\ UNCHANGED <<dbvars, playlists, nextId, inflight, auth>>

\* toggleVideoLike from the request parameter on
toggleVideoLikeRequest(u, videoId) ==
  /\ u \in DOMAIN users
  /\ IF isValidObjectId(videoId) THEN toggleVideoLike(u, videoId)
     ELSE /\ last' = Resp("toggleVideoLike", 400)
          /\ UNCHANGED <<dbvars, playlists, nextId, inflight, auth>>

\* --------------------------------------------------------- deleting handlers
\* a filter on the _id alone
deleteVideoFilterById(videoId, u) == [id |-> videoId]

deleteVideoFilter(videoId, u) == [id |-> videoId, owner |-> u]

deleteVideo(u, videoId, ok) ==
  /\ u \in DOMAIN users
  /\ videoId \in VideoIds
  /\ LET filter == deleteVideoFilter(videoId, u)
     IN /\ \E d \in VideoFindOneAndDelete(DB, filter, ok) : SetDB(d)
        /\ last' = Resp("deleteVideo", IF Find(videos, filter) = {} THEN 400 ELSE 200)
  /\ UNCHANGED <<playlists, nextId, inflight, auth>>

deleteCommentFilter(commentId, u) == [id |-> commentId, owner |-> u]

deleteComment(u, commentId) ==
  /\ u \in DOMAIN users
  /\ commentId \in CommentIds
  /\ LET filter == deleteCommentFilter(commentId, u)
     IN /\ SetDB(CommentFindOneAndDelete(DB, filter))
        /\ last' = Resp("deleteComment", IF Find(comments, filter) = {} THEN 400 ELSE 200)
  /\ UNCHANGED <<playlists, nextId, inflight, auth>>

deleteReplyFilter(replyId, u) == [id |-> replyId, owner |-> u]

deleteReply(u, replyId) ==
  /\ u \in DOMAIN users
  /\ replyId \in CommentIds
  /\ LET filter == deleteReplyFilter(replyId, u)
         found == Find(comments, filter)
         d == CommentFindOneAndDelete(DB, filter)
         parent == IF found = {} THEN None ELSE comments[replyId].parentComment
         \* parentComment.replies.pull(deletedReply._id); parentComment.save()
         pulled == IF parent # None /\ parent \in DOMAIN d.comments
                   THEN [d EXCEPT !.comments[parent].replies = @ \ {replyId}]
                   ELSE d
     IN /\ SetDB(pulled)
        /\ last' = Resp("deleteReply", IF found = {} THEN 400 ELSE 200)
  /\ UNCHANGED <<playlists, nextId, inflight, auth>>

deleteTweetFilter(tweetId, u) == [id |-> tweetId, owner |-> u]

deleteTweet(u, tweetId) ==
  /\ u \in DOMAIN users
  /\ tweetId \in TweetIds
  /\ LET filter == deleteTweetFilter(tweetId, u)
     IN /\ SetDB(TweetFindOneAndDelete(DB, filter))
        /\ last' = Resp("deleteTweet", IF Find(tweets, filter) = {} THEN 400 ELSE 200)
  /\ UNCHANGED <<playlists, nextId, inflight, auth>>

\* ok: whether the object store answers this request's delete calls
deleteUserAccount(u, ok) ==
  /\ u \in DOMAIN users
  /\ LET user == users[u]
     IN \E d \in UserFindOneAndDelete(DB, [id |-> u], ok) :
          LET avatar == deleteOnCloudinaryWithUrlResult(d.store, user.avatar, ok)
              store1 == deleteOnCloudinaryWithUrl(d.store, user.avatar, ok)
              coverImage == deleteOnCloudinaryWithUrlResult(store1, user.coverImage, ok)
              store2 == deleteOnCloudinaryWithUrl(store1, user.coverImage, ok)
          IN /\ SetDB([d EXCEPT !.store = store2])
             /\ last' = Resp("deleteUserAccount", IF avatar.error \/ coverImage.error THEN 500 ELSE 200)
  /\ UNCHANGED <<playlists, nextId, inflight, auth>>

\* deleteUserAccount in two parts, for the specifications in which requests
\* interleave: the user hook awaits every database call, and other requests
\* run between Comment.find({owner}) and the loop over what it returned.
\* First part: User.findOneAndDelete, the user's videos, the user's likes,
\* Comment.find({owner}).
deleteUserAccountBegin(u, ok) ==
  /\ u \in DOMAIN users
  /\ BagCardinality(inflight) < MaxInflight
  /\ LET db0 == [DB EXCEPT !.users = Without(@, {u})]
         afterVideos ==
           UNION {DeleteVideosByDoc({db0}, db0.videos, o, ok) :
                    o \in Orders(Find(db0.videos, [owner |-> u]))}
     IN \E d \in afterVideos :
          LET d1 == [d EXCEPT !.likes = LikeDeleteMany(@, [likedBy |-> u])]
              commentTodelete == [c \in Find(d1.comments, [owner |-> u]) |-> d1.comments[c]]
          IN /\ SetDB(d1)
             /\ inflight' = inflight (+) SetToBag({RequestWith("deleteUserAccount", u, u,
                                [user |-> users[u], comments |-> commentTodelete, ok |-> ok])})
  /\ last' = Resp("deleteUserAccount", Pending)
  /\ UNCHANGED <<playlists, nextId, auth>>

\* Second part: the loop over the loaded comments, the user's tweets and
\* subscriptions, the avatar and the cover image, and the response.
deleteUserAccountFinish(r) ==
  /\ BagIn(r, inflight)
  /\ r.op = "deleteUserAccount"
  /\ \E o \in Orders(DOMAIN r.snap.comments) :
       LET d2 == DeleteCommentsByDoc(DB, r.snap.comments, o)
       IN \E ot \in Orders(Find(d2.tweets, [owner |-> r.actor])) :
            LET d3 == DeleteTweetsByDoc(d2, d2.tweets, ot)
                d4 == [d3 EXCEPT !.subs = SubDeleteMany(@,
                         {[subscriber |-> r.actor], [channel |-> r.actor]})]
                user == r.snap.user
                ok == r.snap.ok
                avatar == deleteOnCloudinaryWithUrlResult(d4.store, user.avatar, ok)
                store1 == deleteOnCloudinaryWithUrl(d4.store, user.avatar, ok)
                coverImage == deleteOnCloudinaryWithUrlResult(store1, user.coverImage, ok)
                store2 == deleteOnCloudinaryWithUrl(store1, user.coverImage, ok)
            IN /\ SetDB([d4 EXCEPT !.store = store2])
               /\ last' = Resp(r.op, IF avatar.error \/ coverImage.error THEN 500 ELSE 200)
  /\ inflight' = inflight (-) SetToBag({r})
  /\ UNCHANGED <<playlists, nextId, auth>>

\* ---------------------------------------------------------------- playlists
\* an update that appends the value whether or not it is there
AddToSetPush(list, x) == Append(list, x)

\* {$addToSet: {videos: x}}
AddToSet(list, x) ==
  IF \E i \in 1..Len(list) : list[i] = x THEN list ELSE Append(list, x)

\* {$pull: {videos: x}}
Pull(list, x) == SelectSeq(list, LAMBDA e : e # x)

\* The video ids that playlist requests name: the handlers take any valid
\* ObjectId and do not look the video up.
PlaylistVideoIds == 1 .. (MaxVideos + 1)

createPlaylist(u) ==
  /\ u \in DOMAIN users
  /\ nextId.playlist <= MaxPlaylists
  /\ playlists' = With(playlists, nextId.playlist,
                    [id |-> nextId.playlist, owner |-> u, videos |-> <<>>])
  /\ nextId' = [nextId EXCEPT !.playlist = @ + 1]
  /\ last' = Resp("createPlaylist", 200)
  /\ UNCHANGED <<users, videos, comments, tweets, likes, subs, store, inflight, auth>>

playlistFilter(playlistId, u) == [id |-> playlistId, owner |-> u]

addVideoToPlaylist(u, playlistId, videoId) ==
  /\ u \in DOMAIN users
  /\ playlistId \in PlaylistIds
  /\ videoId \in PlaylistVideoIds
  /\ IF Find(playlists, playlistFilter(playlistId, u)) = {}
     THEN /\ playlists' = playlists
          /\ last' = Resp("addVideoToPlaylist", 500)
     ELSE /\ playlists' = [playlists EXCEPT ![playlistId].videos = AddToSet(@, videoId)]
          /\ last' = Resp("addVideoToPlaylist", 200)
  /\ UNCHANGED <<users, videos, comments, tweets, likes, subs, store, nextId, inflight, auth>>

removeVideoFromPlaylist(u, playlistId, videoId) ==
  /\ u \in DOMAIN users
  /\ playlistId \in PlaylistIds
  /\ videoId \in PlaylistVideoIds
  /\ IF Find(playlists, playlistFilter(playlistId, u)) = {}
     THEN /\ playlists' = playlists
          /\ last' = Resp("removeVideoFromPlaylist", 500)
     ELSE /\ playlists' = [playlists EXCEPT ![playlistId].videos = Pull(@, videoId)]
          /\ last' = Resp("removeVideoFromPlaylist", 200)
  /\ UNCHANGED <<users, videos, comments, tweets, likes, subs, store, nextId, inflight, auth>>

deletePlaylist(u, playlistId) ==
  /\ u \in DOMAIN users
  /\ playlistId \in PlaylistIds
  /\ LET found == Find(playlists, playlistFilter(playlistId, u))
     IN /\ playlists' = Without(playlists, found)
        /\ last' = Resp("deletePlaylist", IF found = {} THEN 500 ELSE 200)
  /\ UNCHANGED <<users, videos, comments, tweets, likes, subs, store, nextId, inflight, auth>>

\* ------------------------------------------------------------------ seeding
\* seedLikes, the step of seedYoutube that rewrites the Like collection, run
\* after the steps that fill the other collections: Like.deleteMany() and
\* Like.insertMany of documents that each carry a random video, a random
\* comment, a random tweet and a random user.
seedLikes ==
  /\ DOMAIN users # {}
  /\ DOMAIN videos # {}
  /\ DOMAIN comments # {}
  /\ DOMAIN tweets # {}
  /\ \E S \in SUBSET [likedBy : DOMAIN users, video : DOMAIN videos,
                      comment : DOMAIN comments, tweet : DOMAIN tweets] :
       /\ S # {}
       /\ Cardinality(S) <= MaxLikes
       /\ likes' = SetToBag(S)
  /\ last' = Resp("seedYoutube", 201)
  /\ UNCHANGED <<playlists, users, videos, comments, tweets, subs, store, nextId, inflight, auth>>

\* ----------------------------------------------------------- specifications
Actors == UserIds

\* no request is suspended between two of its database calls
Idle == inflight = EmptyBag

\* Videos, comments, replies and their likes; requests are served one at a
\* time and the object store answers every call.
Next ==
  \/ Idle /\ registerUser(FALSE)
  \/ Idle /\ \E u \in Actors : publishAVideo(u)
  \/ Idle /\ \E viewer \in Actors \cup {None}, v \in VideoIds : getVideoById(viewer, v)
  \/ Idle /\ \E u \in Actors, v \in VideoIds :
               /\ v \in DOMAIN videos => nextId.comment \in CascadeCommentIds
               /\ addComment(u, v)
  \/ Idle /\ \E u \in Actors, c \in CascadeCommentIds :
               /\ c \in DOMAIN comments => nextId.comment \in CascadeCommentIds
               /\ addReplyToComment(u, c)
  \/ Idle /\ \E u \in Actors, v \in VideoIds : toggleVideoLike(u, v)
  \/ Idle /\ \E u \in Actors, c \in CascadeCommentIds : toggleCommentLike(u, c)
  \/ \E r \in BagToSet(inflight) : toggleLikeCreate(r)
  \/ Idle /\ \E u \in Actors, v \in VideoIds : deleteVideo(u, v, TRUE)
  \/ Idle /\ \E u \in Actors, c \in CascadeCommentIds : deleteComment(u, c)
  \/ Idle /\ \E u \in Actors, c \in CascadeCommentIds : deleteReply(u, c)

Spec == Init /\ [][Next]_vars

\* The same with tweets and their likes: every entity an owner can delete.
NextOwner ==
  \/ Idle /\ registerUser(FALSE)
  \/ Idle /\ \E u \in Actors : publishAVideo(u)
  \/ Idle /\ \E u \in Actors, v \in VideoIds :
               /\ v \in DOMAIN videos => nextId.comment \in CascadeCommentIds
               /\ addComment(u, v)
  \/ Idle /\ \E u \in Actors, c \in CascadeCommentIds :
               /\ c \in DOMAIN comments => nextId.comment \in CascadeCommentIds
               /\ addReplyToComment(u, c)
  \/ Idle /\ nextId.tweet \in CascadeTweetIds /\ \E u \in Actors : createTweet(u)
  \/ Idle /\ \E u \in Actors, v \in VideoIds : toggleVideoLike(u, v)
  \/ Idle /\ \E u \in Actors, c \in CascadeCommentIds : toggleCommentLike(u, c)
  \/ Idle /\ \E u \in Actors, t \in CascadeTweetIds : toggleTweetLike(u, t)
  \/ \E r \in BagToSet(inflight) : toggleLikeCreate(r)
  \/ Idle /\ \E u \in Actors, v \in VideoIds : deleteVideo(u, v, TRUE)
  \/ Idle /\ \E u \in Actors, c \in CascadeCommentIds : deleteComment(u, c)
  \/ Idle /\ \E u \in Actors, c \in CascadeCommentIds : deleteReply(u, c)
  \/ Idle /\ \E u \in Actors, t \in CascadeTweetIds : deleteTweet(u, t)

SpecOwner == Init /\ [][NextOwner]_vars

\* Account deletion over everything a user can own in the database; requests
\* are served one at a time and the object store answers every call.
NextUser ==
  \/ Idle /\ registerUser(FALSE)
  \/ Idle /\ \E u \in Actors : publishAVideo(u)
  \/ Idle /\ \E u \in Actors, v \in VideoIds :
               /\ v \in DOMAIN videos => nextId.comment \in CascadeCommentIds
               /\ addComment(u, v)
  \/ Idle /\ \E u \in Actors, c \in CascadeCommentIds :
               /\ c \in DOMAIN comments => nextId.comment \in CascadeCommentIds
               /\ addReplyToComment(u, c)
  \/ Idle /\ nextId.tweet \in CascadeTweetIds /\ \E u \in Actors : createTweet(u)
  \/ Idle /\ \E u \in Actors, v \in VideoIds : toggleVideoLike(u, v)
  \/ Idle /\ \E u \in Actors, c \in CascadeCommentIds : toggleCommentLike(u, c)
  \/ Idle /\ \E u \in Actors, t \in CascadeTweetIds : toggleTweetLike(u, t)
  \/ \E r \in BagToSet(inflight) : toggleLikeCreate(r)
  \/ Idle /\ \E u \in Actors, ch \in UserIds : toggleSubscription(u, ch)
  \/ \E r \in BagToSet(inflight) : toggleSubscriptionCreate(r)
  \/ Idle /\ \E u \in Actors : deleteUserAccount(u, TRUE)

SpecUser == Init /\ [][NextUser]_vars

\* The uploaded assets of users and videos; the object store may fail the
\* delete calls of a request.
NextAssets ==
  \/ \E withCover \in BOOLEAN : registerUser(withCover)
  \/ \E u \in Actors : publishAVideo(u)
  \/ \E viewer \in Actors \cup {None}, v \in VideoIds : getVideoById(viewer, v)
  \/ \E u \in Actors, v \in VideoIds, ok \in BOOLEAN : deleteVideo(u, v, ok)
  \/ \E u \in Actors, ok \in BOOLEAN : deleteUserAccount(u, ok)

SpecAssets == Init /\ [][NextAssets]_vars

\* Like and subscription toggles with their two database calls interleaved
\* across requests, and account deletion between them.
NextToggle ==
  \/ registerUser(FALSE)
  \/ \E u \in Actors, v \in VideoIds : toggleVideoLike(u, v)
  \/ \E u \in Actors, c \in CascadeCommentIds : toggleCommentLike(u, c)
  \/ \E u \in Actors, t \in CascadeTweetIds : toggleTweetLike(u, t)
  \/ \E r \in BagToSet(inflight) : toggleLikeCreate(r)
  \/ \E u \in Actors, ch \in UserIds : toggleSubscription(u, ch)
  \/ \E r \in BagToSet(inflight) : toggleSubscriptionCreate(r)
  \/ \E u \in Actors : deleteUserAccount(u, TRUE)

SpecToggle == Init /\ [][NextToggle]_vars

\* Comment threads of up to MaxComments comments; requests are served one at
\* a time.
NextThread ==
  \/ Idle /\ registerUser(FALSE)
  \/ Idle /\ \E u \in Actors : publishAVideo(u)
  \/ Idle /\ \E u \in Actors, v \in VideoIds : addComment(u, v)
  \/ Idle /\ \E u \in Actors, c \in CommentIds : addReplyToComment(u, c)
  \/ Idle /\ \E u \in Actors, c \in CommentIds : deleteComment(u, c)
  \/ Idle /\ \E u \in Actors, c \in CommentIds : deleteReply(u, c)
  \/ Idle /\ \E u \in Actors, v \in VideoIds : deleteVideo(u, v, TRUE)
  \/ Idle /\ \E u \in Actors : deleteUserAccount(u, TRUE)

SpecThread == Init /\ [][NextThread]_vars

\* View counting next to the other writers of a video document; the database
\* calls of different requests interleave.
NextViews ==
  \/ registerUser(FALSE)
  \/ \E u \in Actors : publishAVideo(u)
  \/ \E viewer \in Actors \cup {None}, v \in VideoIds : getVideoById(viewer, v)
  \/ \E u \in Actors, v \in VideoIds, withThumbnail \in BOOLEAN :
       updateVideo(u, v, withThumbnail, TRUE)
  \/ \E u \in Actors, v \in VideoIds : togglePublishStatusFind(u, v)
  \/ \E r \in BagToSet(inflight) : togglePublishStatusSave(r)
  \/ \E u \in Actors, v \in VideoIds : deleteVideo(u, v, TRUE)

SpecViews == Init /\ [][NextViews]_vars

\* Every handler that uploads or destroys an asset, with an object store that
\* answers every call; requests are served one at a time.
NextMedia ==
  \/ \E withCover \in BOOLEAN : registerUser(withCover)
  \/ \E u \in Actors : updateAvatarImage(u, TRUE)
  \/ \E u \in Actors : updateUserCoverImage(u, TRUE)
  \/ \E u \in Actors : publishAVideo(u)
  \/ \E u \in Actors, v \in VideoIds, withThumbnail \in BOOLEAN :
       updateVideo(u, v, withThumbnail, TRUE)
  \/ \E u \in Actors, v \in VideoIds : deleteVideo(u, v, TRUE)
  \/ \E u \in Actors : deleteUserAccount(u, TRUE)

SpecMedia == Init /\ [][NextMedia]_vars

\* Every writer of the Like collection; requests are served one at a time.
NextSeed ==
  \/ Idle /\ registerUser(FALSE)
  \/ Idle /\ \E u \in Actors : publishAVideo(u)
  \/ Idle /\ \E u \in Actors, v \in VideoIds :
               /\ v \in DOMAIN videos => nextId.comment \in CascadeCommentIds
               /\ addComment(u, v)
  \/ Idle /\ nextId.tweet \in CascadeTweetIds /\ \E u \in Actors : createTweet(u)
  \/ Idle /\ \E u \in Actors, v \in VideoIds : toggleVideoLike(u, v)
  \/ Idle /\ \E u \in Actors, c \in CascadeCommentIds : toggleCommentLike(u, c)
  \/ Idle /\ \E u \in Actors, t \in CascadeTweetIds : toggleTweetLike(u, t)
  \/ \E r \in BagToSet(inflight) : toggleLikeCreate(r)
  \/ Idle /\ seedLikes

SpecSeed == Init /\ [][NextSeed]_vars

\* Playlists next to the publication and deletion of videos.
NextPlaylist ==
  \/ registerUser(FALSE)
  \/ \E u \in Actors : publishAVideo(u)
  \/ \E u \in Actors : createPlaylist(u)
  \/ \E u \in Actors, p \in PlaylistIds, v \in PlaylistVideoIds : addVideoToPlaylist(u, p, v)
  \/ \E u \in Actors, p \in PlaylistIds, v \in PlaylistVideoIds :
       removeVideoFromPlaylist(u, p, v)
  \/ \E u \in Actors, p \in PlaylistIds : deletePlaylist(u, p)
  \/ \E u \in Actors, v \in VideoIds : deleteVideo(u, v, TRUE)

SpecPlaylist == Init /\ [][NextPlaylist]_vars

\* Tweets, the likes on them and on other targets, and the two ways a tweet
\* is removed; requests are served one at a time.
NextTweet ==
  \/ Idle /\ registerUser(FALSE)
  \/ Idle /\ \E u \in Actors : createTweet(u)
  \/ Idle /\ \E u \in Actors, t \in TweetIds : toggleTweetLike(u, t)
  \/ Idle /\ \E u \in Actors, v \in VideoIds : toggleVideoLike(u, v)
  \/ Idle /\ \E u \in Actors, c \in CascadeCommentIds : toggleCommentLike(u, c)
  \/ \E r \in BagToSet(inflight) : toggleLikeCreate(r)
  \/ Idle /\ \E u \in Actors, t \in TweetIds : deleteTweet(u, t)
  \/ Idle /\ \E u \in Actors : deleteUserAccount(u, TRUE)

SpecTweet == Init /\ [][NextTweet]_vars

\* Replies added while their parent, its video or its owner is deleted: the
\* database calls of addReplyToComment interleave with the other requests.
NextReplyRace ==
  \/ registerUser(FALSE)
  \/ \E u \in Actors : publishAVideo(u)
  \/ \E u \in Actors, v \in VideoIds :
       /\ v \in DOMAIN videos => nextId.comment \in CascadeCommentIds
       /\ addComment(u, v)
  \/ \E u \in Actors, c \in CommentIds : addReplyFind(u, c)
  \/ \E r \in BagToSet(inflight) : addReplySave(r)
  \/ \E r \in BagToSet(inflight) : addReplyPush(r)
  \/ \E u \in Actors, c \in CommentIds : deleteComment(u, c)
  \/ \E u \in Actors, v \in VideoIds : deleteVideo(u, v, TRUE)
  \/ \E u \in Actors : deleteUserAccount(u, TRUE)

SpecReplyRace == Init /\ [][NextReplyRace]_vars

\* Delete requests whose cascades overlap: deleteUserAccount interleaves with
\* the deletion of videos, comments and replies.
NextCascade ==
  \/ registerUser(FALSE)
  \/ \E u \in Actors : publishAVideo(u)
  \/ \E u \in Actors, v \in VideoIds :
       /\ v \in DOMAIN videos => nextId.comment \in CascadeCommentIds
       /\ addComment(u, v)
  \/ \E u \in Actors, c \in CascadeCommentIds :
       /\ c \in DOMAIN comments => nextId.comment \in CascadeCommentIds
       /\ addReplyToComment(u, c)
  \/ \E u \in Actors, v \in VideoIds : deleteVideo(u, v, TRUE)
  \/ \E u \in Actors, c \in CascadeCommentIds : deleteComment(u, c)
  \/ \E u \in Actors, c \in CascadeCommentIds : deleteReply(u, c)
  \/ \E u \in Actors : deleteUserAccountBegin(u, TRUE)
  \/ \E r \in BagToSet(inflight) : deleteUserAccountFinish(r)

SpecCascade == Init /\ [][NextCascade]_vars

\* Video deletion with an object store that may fail, on videos that have
\* comments and likes.
NextBestEffort ==
  \/ Idle /\ registerUser(FALSE)
  \/ Idle /\ \E u \in Actors : publishAVideo(u)
  \/ Idle /\ \E u \in Actors, v \in VideoIds : addComment(u, v)
  \/ Idle /\ \E u \in Actors, v \in VideoIds : toggleVideoLike(u, v)
  \/ \E r \in BagToSet(inflight) : toggleLikeCreate(r)
  \/ Idle /\ \E u \in Actors, v \in VideoIds, ok \in BOOLEAN : deleteVideo(u, v, ok)

SpecBestEffort == Init /\ [][NextBestEffort]_vars

\* Requests with malformed identifiers and incomplete bodies.
NextValidate ==
  \/ Idle /\ \E body \in BodyKinds, withCover \in BOOLEAN : registerUserRequest(body, withCover)
  \/ Idle /\ \E u \in Actors, body \in BodyKinds, withFiles \in BOOLEAN :
               publishAVideoRequest(u, body, withFiles)
  \/ Idle /\ \E viewer \in Actors \cup {None}, v \in VideoIds \cup {Malformed} :
               getVideoByIdRequest(viewer, v)
  \/ Idle /\ \E u \in Actors, v \in VideoIds \cup {Malformed} : toggleVideoLikeRequest(u, v)
  \/ \E r \in BagToSet(inflight) : toggleLikeCreate(r)

SpecValidate == Init /\ [][NextValidate]_vars

\* Comments and replies written while the video is deleted.
NextCommentRace ==
  \/ registerUser(FALSE)
  \/ \E u \in Actors : publishAVideo(u)
  \/ \E u \in Actors, v \in VideoIds : addCommentFind(u, v)
  \/ \E r \in BagToSet(inflight) : addCommentCreate(r)
  \/ \E u \in Actors, c \in CommentIds : addReplyFind(u, c)
  \/ \E r \in BagToSet(inflight) : addReplySave(r)
  \/ \E r \in BagToSet(inflight) : addReplyPush(r)
  \/ \E u \in Actors, v \in VideoIds : deleteVideo(u, v, TRUE)

SpecCommentRace == Init /\ [][NextCommentRace]_vars

\* the refresh tokens a client can present: those handed out so far
Presentable == {auth.issued[i] : i \in DOMAIN auth.issued}

\* Sessions, one request at a time.
NextSession ==
  \/ registerUser(FALSE)
  \/ Tick
  \/ \E u \in UserIds, passwordOk \in BOOLEAN : loginUser(u, passwordOk)
  \/ \E u \in Actors : logoutUser(u)
  \/ \E t \in Presentable \cup {NoToken} : refreshAccessToken(t)
  \/ \E u \in Actors : deleteUserAccount(u, TRUE)

SpecSession == Init /\ [][NextSession]_vars

\* Sessions with refresh requests that interleave.
NextSessionRace ==
  \/ registerUser(FALSE)
  \/ Tick
  \/ \E u \in UserIds, passwordOk \in BOOLEAN : loginUser(u, passwordOk)
  \/ \E u \in Actors : logoutUser(u)
  \/ \E t \in Presentable \cup {NoToken} : refreshAccessTokenFind(t)
  \/ \E r \in BagToSet(inflight) : refreshAccessTokenGenerate(r)
  \/ \E u \in Actors : deleteUserAccount(u, TRUE)

SpecSessionRace == Init /\ [][NextSessionRace]_vars

\* Listing videos and publishing or unpublishing them, one request at a time.
NextVisibility ==
  \/ Idle /\ registerUser(FALSE)
  \/ Idle /\ \E u \in Actors : publishAVideo(u)
  \/ Idle /\ \E u \in Actors, v \in VideoIds : togglePublishStatusFind(u, v)
  \/ \E r \in BagToSet(inflight) : togglePublishStatusSave(r)
  \/ Idle /\ \E requester \in Actors \cup {None}, userId \in UserIds \cup {None, Malformed},
                hits \in SUBSET VideoIds : getAllVideos(requester, userId, hits)
  \/ Idle /\ \E viewer \in Actors \cup {None}, v \in VideoIds : getVideoById(viewer, v)

SpecVisibility == Init /\ [][NextVisibility]_vars

TypeOK ==
  /\ DOMAIN users \subseteq UserIds
  /\ DOMAIN videos \subseteq VideoIds
  /\ DOMAIN comments \subseteq CommentIds
  /\ DOMAIN tweets \subseteq TweetIds
  /\ BagCardinality(likes) <= MaxLikes
  /\ BagCardinality(subs) <= MaxSubs
  /\ BagCardinality(inflight) <= MaxInflight

\* ------------------------------------------------------------------ claims
LikesOn(L, kind, target) == {k \in BagToSet(L) : k[kind] = target}

\* C1: after deleteVideo succeeds for a video V owned by the caller, V is
\* gone, every comment and reply on V is gone, every like on V is gone and
\* every like on a comment or reply that was on V is gone.
C1_VideoDeletionCascade ==
  [][\A u \in UserIds, v \in VideoIds :
       (/\ v \in DOMAIN videos
        /\ videos[v].owner = u
        /\ deleteVideo(u, v, TRUE))
       => /\ v \notin DOMAIN videos'
          /\ LikesOn(likes', "video", v) = {}
          /\ \A c \in DOMAIN comments : comments[c].video = v =>
                /\ c \notin DOMAIN comments'
                /\ LikesOn(likes', "comment", c) = {}]_vars

\* C2: after a video V is deleted, V's id is in no user's watchHistory.
C2_WatchHistoryPulledEverywhere ==
  [][\A u \in UserIds, v \in VideoIds :
       (/\ v \in DOMAIN videos
        /\ videos[v].owner = u
        /\ deleteVideo(u, v, TRUE))
       => \A w \in DOMAIN users' : v \notin users'[w].watchHistory]_vars

\* C3: deleting a top-level comment removes it, all of its replies, the
\* likes on it and the likes on each of its replies.
C3_ParentCommentCascade ==
  [][\A u \in UserIds, c \in CommentIds :
       (/\ c \in DOMAIN comments
        /\ comments[c].owner = u
        /\ comments[c].parentComment = None
        /\ deleteComment(u, c))
       => /\ c \notin DOMAIN comments'
          /\ LikesOn(likes', "comment", c) = {}
          /\ \A r \in DOMAIN comments : comments[r].parentComment = c =>
                /\ r \notin DOMAIN comments'
                /\ LikesOn(likes', "comment", r) = {}]_vars

\* C4: after deleteUserAccount succeeds for user U, no video, comment,
\* reply, like, tweet or subscription references U, and no like remains on
\* U's videos, comments, tweets or on the replies to U's comments.
C4_UserDeletionCascade ==
  [][\A u \in UserIds :
       (/\ u \in DOMAIN users
        /\ deleteUserAccount(u, TRUE)
        /\ last'.status = 200)
       => /\ Find(videos', [owner |-> u]) = {}
          /\ Find(comments', [owner |-> u]) = {}
          /\ Find(tweets', [owner |-> u]) = {}
          /\ \A k \in BagToSet(likes') : k.likedBy # u
          /\ \A k \in BagToSet(subs') : k.subscriber # u /\ k.channel # u
          /\ \A v \in Find(videos, [owner |-> u]) : LikesOn(likes', "video", v) = {}
          /\ \A t \in Find(tweets, [owner |-> u]) : LikesOn(likes', "tweet", t) = {}
          /\ \A c \in Find(comments, [owner |-> u]) :
                /\ LikesOn(likes', "comment", c) = {}
                /\ \A r \in Find(comments, [parentComment |-> c]) :
                      /\ r \notin DOMAIN comments'
                      /\ LikesOn(likes', "comment", r) = {}]_vars

\* the assets of the store that a url delivers
AssetsOfUrl(st, url) ==
  {a \in st : AssetUrl(a.public_id[2], a.resource_type) = url}

\* C5: after deleteUserAccount succeeds for user U with every object-store
\* delete call answered, the store holds no asset for U's avatar, U's cover
\* image, or the video file or thumbnail of a video U owned.
C5_UserAssetsRemoved ==
  [][\A u \in UserIds :
       (/\ u \in DOMAIN users
        /\ deleteUserAccount(u, TRUE)
        /\ last'.status = 200)
       => /\ AssetsOfUrl(store', users[u].avatar) = {}
          /\ AssetsOfUrl(store', users[u].coverImage) = {}
          /\ \A v \in Find(videos, [owner |-> u]) :
                /\ [public_id |-> videos[v].videoFile.fileName,
                    resource_type |-> "video"] \notin store'
                /\ [public_id |-> videos[v].thumbnail.fileName,
                    resource_type |-> "image"] \notin store']_vars

\* C6: toggleSubscription with channelId equal to the caller's own id is
\* answered with a client error, and no step creates or deletes a
\* subscription of a user to itself.
C6_SelfSubscriptionRejected ==
  [][/\ \A u \in UserIds :
          (u \in DOMAIN users /\ toggleSubscription(u, u))
          => /\ last'.status = 400
             /\ UNCHANGED <<subs, inflight>>
     /\ \A u \in UserIds : CopiesIn(SubDoc(u, u), subs') = CopiesIn(SubDoc(u, u), subs)]_vars

\* C7: in every reachable state, also after interleaved identical toggles,
\* the Like collection holds at most one document per (likedBy, target).
C7_LikeUnique == \A k \in BagToSet(likes) : CopiesIn(k, likes) <= 1

\* two identical toggles raced: the second insert was refused
C7_Witness ==
  /\ last.op \in LikeOps
  /\ last.status = 500
  /\ likes # EmptyBag

\* C8: a like toggle on a pair without a like creates exactly one document
\* for the pair, a toggle on a pair with a like removes it, so the second of
\* two toggles restores the collection; likes of other pairs are untouched.
C8_ToggleTwiceRestores ==
  [][/\ \A r \in BagToSet(inflight) :
          LET doc == LikeDoc(r.actor, KindOf(r.op), r.target)
          IN (toggleLikeCreate(r) /\ ~BagIn(doc, likes))
             => /\ CopiesIn(doc, likes') = 1
                /\ \A k \in BagToSet(likes) \cup BagToSet(likes') :
                      k # doc => CopiesIn(k, likes') = CopiesIn(k, likes)
                /\ toggleLikeRun(likes', doc) = likes
     /\ \A op \in LikeOps, u \in UserIds, t \in VideoIds \cup CommentIds \cup TweetIds :
          LET doc == LikeDoc(u, KindOf(op), t)
          IN (toggleLikeFind(op, u, t) /\ BagIn(doc, likes))
             => /\ CopiesIn(doc, likes') = CopiesIn(doc, likes) - 1
                /\ \A k \in BagToSet(likes) \cup BagToSet(likes') :
                      k # doc => CopiesIn(k, likes') = CopiesIn(k, likes)
                /\ inflight' = inflight
                /\ last'.status = 200]_vars

\* the second of two toggles has returned the collection to the empty state
C8_Witness ==
  /\ last.op \in LikeOps
  /\ last.status = 200
  /\ likes = EmptyBag
  /\ Idle

\* C9: in every reachable state, also after interleaved toggleSubscription
\* requests, there is at most one Subscription per (subscriber, channel).
C9_SubscriptionUnique == \A k \in BagToSet(subs) : CopiesIn(k, subs) <= 1

\* two identical subscription toggles raced: the second insert was refused
C9_Witness ==
  /\ last.op = "toggleSubscription"
  /\ last.status = 500
  /\ subs # EmptyBag

\* C10: a delete request for a video, comment, reply or tweet that exists
\* but belongs to another user is answered 400 and changes no collection
\* and no asset.
C10_ForeignDeleteRefused ==
  [][/\ \A u \in UserIds, v \in VideoIds :
          (v \in DOMAIN videos /\ videos[v].owner # u /\ deleteVideo(u, v, TRUE))
          => (last'.status = 400 /\ UNCHANGED dbvars)
     /\ \A u \in UserIds, c \in CommentIds :
          (c \in DOMAIN comments /\ comments[c].owner # u /\ deleteComment(u, c))
          => (last'.status = 400 /\ UNCHANGED dbvars)
     /\ \A u \in UserIds, c \in CommentIds :
          (c \in DOMAIN comments /\ comments[c].owner # u /\ deleteReply(u, c))
          => (last'.status = 400 /\ UNCHANGED dbvars)
     /\ \A u \in UserIds, t \in TweetIds :
          (t \in DOMAIN tweets /\ tweets[t].owner # u /\ deleteTweet(u, t))
          => (last'.status = 400 /\ UNCHANGED dbvars)]_vars

\* a delete of a video was refused while every video id names a video and
\* the video has a comment with a reply and a like
C10_Witness ==
  /\ last = Resp("deleteVideo", 400)
  /\ DOMAIN videos = VideoIds
  /\ \E c \in DOMAIN comments : comments[c].replies # {}
  /\ likes # EmptyBag

C12_ViewsCountFetches ==
  [][/\ \A v \in DOMAIN videos \cap DOMAIN videos' :
          /\ videos'[v].views >= videos[v].views
          /\ videos'[v].views # videos[v].views
             => \E viewer \in UserIds \cup {None} : getVideoById(viewer, v)
     /\ \A viewer \in UserIds \cup {None}, v \in VideoIds :
          (v \in DOMAIN videos /\ getVideoById(viewer, v))
          => /\ v \in DOMAIN videos'
             /\ videos'[v].views = videos[v].views + 1]_vars

\* a second fetch by a viewer who has the video in the watch history was
\* counted while a togglePublishStatus request on it was suspended
C12_Witness ==
  /\ last = Resp("getVideoById", 200)
  /\ inflight # EmptyBag
  /\ \E v \in DOMAIN videos :
       /\ videos[v].views = MaxViews
       /\ \A w \in DOMAIN users : v \in users[w].watchHistory

\* an existing user or video document refers to the asset
Referenced(a) ==
  \/ \E u \in DOMAIN users :
       a \in AssetsOfUrl(store, users[u].avatar) \cup AssetsOfUrl(store, users[u].coverImage)
  \/ \E v \in DOMAIN videos :
       a.public_id \in {videos[v].videoFile.fileName, videos[v].thumbnail.fileName}

\* C13: when the object store answers every call, every asset it holds after
\* a completed request is the avatar or cover image of an existing user or
\* the video file or thumbnail of an existing video.
C13_NoStaleMedia == \A a \in store : Referenced(a)

\* C14: every Like document has likedBy and exactly one of the target
\* fields video, comment, tweet set.
C14_LikeHasOneTarget ==
  \A k \in BagToSet(likes) :
    /\ k.likedBy # None
    /\ Cardinality({f \in {"video", "comment", "tweet"} : k[f] # None}) = 1

\* the ids of a playlist's videos list
Listed(playlist) == {playlist.videos[i] : i \in 1..Len(playlist.videos)}

\* C15: no playlist lists a video id twice; adding an id that is listed
\* leaves the list as it was; a request of a user who is not the playlist's
\* owner changes no list.
C15_PlaylistNoDuplicates ==
  [][/\ \A p \in DOMAIN playlists' :
          Cardinality(Listed(playlists'[p])) = Len(playlists'[p].videos)
     /\ \A u \in UserIds, p \in PlaylistIds, v \in PlaylistVideoIds :
          /\ (/\ p \in DOMAIN playlists
              /\ v \in Listed(playlists[p])
              /\ addVideoToPlaylist(u, p, v)) => playlists' = playlists
          /\ (/\ p \in DOMAIN playlists
              /\ playlists[p].owner # u
              /\ \/ addVideoToPlaylist(u, p, v)
                 \/ removeVideoFromPlaylist(u, p, v)
                 \/ deletePlaylist(u, p)) => playlists' = playlists]_vars

\* an add was refused for a playlist that exists, so for its owner; the
\* playlist lists two ids
C15_Witness ==
  /\ last = Resp("addVideoToPlaylist", 500)
  /\ DOMAIN playlists = PlaylistIds
  /\ \E p \in DOMAIN playlists : Len(playlists[p].videos) = 2

\* C20: after a video is deleted no playlist lists its id.
C20_NoDanglingPlaylistEntry ==
  [][\A u \in UserIds, v \in VideoIds :
       (/\ v \in DOMAIN videos
        /\ videos[v].owner = u
        /\ deleteVideo(u, v, TRUE))
       => \A p \in DOMAIN playlists' : v \notin Listed(playlists'[p])]_vars

\* C16: when deleteTweet removes a tweet, no like on it remains and every
\* other like is kept; when deleteUserAccount removes a user, the user's
\* tweets and the likes on them are gone and the likes of other users on
\* other tweets are kept.
C16_TweetDeletionCascade ==
  [][/\ \A u \in UserIds, t \in TweetIds :
          (/\ t \in DOMAIN tweets
           /\ tweets[t].owner = u
           /\ deleteTweet(u, t))
          => /\ t \notin DOMAIN tweets'
             /\ LikesOn(likes', "tweet", t) = {}
             /\ \A k \in BagToSet(likes) :
                  k.tweet # t => CopiesIn(k, likes') = CopiesIn(k, likes)
     /\ \A u \in UserIds :
          (u \in DOMAIN users /\ deleteUserAccount(u, TRUE))
          => /\ \A t \in Find(tweets, [owner |-> u]) :
                  t \notin DOMAIN tweets' /\ LikesOn(likes', "tweet", t) = {}
             /\ \A k \in BagToSet(likes) :
                  (/\ k.likedBy # u
                   /\ k.tweet # None
                   /\ k.tweet \notin Find(tweets, [owner |-> u]))
                  => CopiesIn(k, likes') = CopiesIn(k, likes)]_vars

\* a tweet was deleted by its owner while another tweet exists and has a like
C16_Witness ==
  /\ last = Resp("deleteTweet", 200)
  /\ \E t \in DOMAIN tweets : LikesOn(likes, "tweet", t) # {}

\* C17: every id in a comment's replies list is the id of an existing comment
\* whose parentComment is that comment.
C17_RepliesListConsistent ==
  \A c \in DOMAIN comments :
    \A r \in comments[c].replies :
      r \in DOMAIN comments /\ comments[r].parentComment = c

\* a reply was deleted and pulled out of the list of its parent, which still
\* lists another reply
C17_Witness ==
  /\ last = Resp("deleteReply", 200)
  /\ \E c \in DOMAIN comments :
       /\ comments[c].replies # {}
       /\ nextId.comment - 1 \notin DOMAIN comments
       /\ Cardinality(DOMAIN comments) = MaxComments - 1

\* C18: whenever no request is in flight, every comment with a
\* parentComment references an existing comment on the same video.
C18_ParentExistsWhenIdle ==
  Idle => \A c \in DOMAIN comments :
            LET p == comments[c].parentComment
            IN p # None => (p \in DOMAIN comments /\ comments[p].video = comments[c].video)

\* C19: when another delete request has removed a comment that a running
\* deleteUserAccount had loaded, or a reply of it, the account deletion completes
\* with a success, and afterwards no comment is owned by the deleted user or
\* refers to a video or a parent comment that does not exist.
C19_OverlappingCascades ==
  [][\A r \in BagToSet(inflight) :
       (/\ r.op = "deleteUserAccount"
        /\ \E c \in DOMAIN r.snap.comments :
             \/ c \notin DOMAIN comments
             \/ /\ comments[c].replies # r.snap.comments[c].replies
                /\ comments[c].replies \subseteq r.snap.comments[c].replies
        /\ deleteUserAccountFinish(r))
       => /\ last'.status = 200
          /\ \A c \in DOMAIN comments' :
               /\ comments'[c].owner # r.actor
               /\ comments'[c].video \in DOMAIN videos'
               /\ comments'[c].parentComment # None
                  => comments'[c].parentComment \in DOMAIN comments']_vars

C22_VideoDeleteBestEffort ==
  [][\A u \in UserIds, v \in VideoIds :
       (/\ v \in DOMAIN videos
        /\ videos[v].owner = u
        /\ deleteVideo(u, v, FALSE))
       => /\ last' = Resp("deleteVideo", 200)
          /\ v \notin DOMAIN videos'
          /\ Find(comments', [video |-> v]) = {}
          /\ LikesOn(likes', "video", v) = {}
          /\ store' = store
          /\ [public_id |-> videos[v].videoFile.fileName, resource_type |-> "video"] \in store'
          /\ [public_id |-> videos[v].thumbnail.fileName, resource_type |-> "image"] \in store']_vars

\* a video that had a comment was deleted while the object store
\* failed: nothing of it is left in the database and its assets remain
C22_Witness ==
  /\ last = Resp("deleteVideo", 200)
  /\ videos = EmptyColl
  /\ comments = EmptyColl
  /\ likes = EmptyBag
  /\ nextId.comment > 1
  /\ Cardinality(store) > Cardinality(DOMAIN users)

\* C23: when updateVideo or togglePublishStatus answers that the video is
\* missing or is not the caller's, no document and no asset of the object
\* store has been created, changed or deleted.
C23_RefusedUpdateHasNoEffect ==
  [][/\ \A u \in UserIds, v \in VideoIds, withThumbnail \in BOOLEAN :
          (/\ Find(videos, updateVideoFilter(v, u)) = {}
           /\ updateVideo(u, v, withThumbnail, TRUE))
          => (last'.status = 400 /\ UNCHANGED <<dbvars, playlists>>)
     /\ \A u \in UserIds, v \in VideoIds :
          (/\ Find(videos, [id |-> v, owner |-> u]) = {}
           /\ togglePublishStatusFind(u, v))
          => (last'.status = 400 /\ UNCHANGED <<dbvars, playlists>>)]_vars

\* C24: a request with a malformed identifier or without a required field is
\* answered 400 and leaves every collection and the object store unchanged;
\* in particular getVideoById with a malformed id changes neither a view
\* count nor a watchHistory.
C24_ValidationBeforeMutation ==
  [][/\ \A body \in BodyKinds \ {"complete"}, withCover \in BOOLEAN :
          registerUserRequest(body, withCover)
          => (last'.status = 400 /\ UNCHANGED <<dbvars, playlists>>)
     /\ \A u \in UserIds, body \in BodyKinds, withFiles \in BOOLEAN :
          (~(body = "complete" /\ withFiles) /\ publishAVideoRequest(u, body, withFiles))
          => (last'.status = 400 /\ UNCHANGED <<dbvars, playlists>>)
     /\ \A viewer \in UserIds \cup {None} :
          getVideoByIdRequest(viewer, Malformed)
          => (last'.status = 400 /\ UNCHANGED <<dbvars, playlists>>)
     /\ \A u \in UserIds :
          toggleVideoLikeRequest(u, Malformed)
          => (last'.status = 400 /\ UNCHANGED <<dbvars, playlists>>)]_vars

\* C25: whenever no request is in flight, the video of every comment is an
\* existing video, also after addComment or addReplyToComment ran interleaved
\* with deleteVideo of that video.
C25_CommentVideoExistsWhenIdle ==
  Idle => \A c \in DOMAIN comments : comments[c].video \in DOMAIN videos

\* C26: when requests run one after the other, the target of every like is
\* an existing video, comment or tweet, so a toggle for an id that matches
\* no entity has created no like.
C26_LikeTargetExists ==
  Idle => \A k \in BagToSet(likes) :
            /\ k.video # None => k.video \in DOMAIN videos
            /\ k.comment # None => k.comment \in DOMAIN comments
            /\ k.tweet # None => k.tweet \in DOMAIN tweets

\* C27: getVideoById for a well-formed id that is the id of no video answers
\* "Video not found" and leaves every watchHistory as it was, so a
\* watchHistory gains an id only while that id names a video.
C27_MissingVideoKeepsWatchHistory ==
  [][\A viewer \in UserIds \cup {None}, v \in VideoIds :
       getVideoById(viewer, v)
       => /\ v \notin DOMAIN videos => (last' = Resp("getVideoById", 400) /\ users' = users)
          /\ \A u \in DOMAIN users' :
               u \in DOMAIN users =>
                 users'[u].watchHistory \ users[u].watchHistory \subseteq DOMAIN videos]_vars

\* C28: from the completion of a user's logoutUser until that user's next
\* login, refreshAccessToken with any refresh token of that user handed out
\* before is answered 401, hands out no token and stores none.
C28_LogoutRevokesRefresh ==
  [][\A t \in Presentable :
       (t.user \in auth.loggedOut /\ refreshAccessToken(t))
       => /\ last' = Resp("refreshAccessToken", 401)
          /\ auth'.issued = auth.issued
          /\ users' = users]_vars

\* every user has logged in, has then logged out and is still registered,
\* and the last request was a refresh that was answered 401
C28_Witness ==
  /\ last = Resp("refreshAccessToken", 401)
  /\ DOMAIN users = UserIds
  /\ auth.loggedOut = UserIds
  /\ \A u \in UserIds : \E t \in Presentable : t.user = u

LatestIssued(issued, u) ==
  LET idx == {i \in DOMAIN issued : issued[i].user = u}
  IN issued[CHOOSE i \in idx : \A j \in idx : j <= i]

\* C29: provided no two issued refresh tokens are equal, a token that passes
\* the comparison with the stored token is the token issued last to its user,
\* and no refresh token is answered with new tokens more than once; this
\* includes refresh requests that interleave.
C29_RefreshTokenSingleUse ==
  [][(\A i, j \in DOMAIN auth'.issued : i # j => auth'.issued[i] # auth'.issued[j])
     => /\ \A t \in Presentable :
             (refreshAccessTokenFind(t) /\ last'.status = Pending)
             => t = LatestIssued(auth.issued, t.user)
        /\ auth'.accepted # auth.accepted
           => \A i \in DOMAIN auth.accepted :
                auth.accepted[i] # auth'.accepted[Len(auth'.accepted)]]_vars

\* C30: getAllVideos returns no unpublished video to a requester who is not
\* its owner, whatever userId and query text the request carries;
\* togglePublishStatus by the owner flips isPublished, and by anyone else
\* leaves it as it was.
C30_VisibilityControl ==
  [][/\ \A requester \in UserIds \cup {None}, userId \in UserIds \cup {None, Malformed},
          hits \in SUBSET VideoIds :
          (getAllVideos(requester, userId, hits) /\ last'.status = 200)
          => \A v \in getAllVideosMatch(videos, userId, hits) :
               videos[v].isPublished \/ videos[v].owner = requester
     /\ \A u \in UserIds, v \in VideoIds :
          (/\ v \in DOMAIN videos
           /\ videos[v].owner # u
           /\ togglePublishStatusFind(u, v))
          => (last'.status = 400 /\ videos' = videos)
     /\ \A r \in BagToSet(inflight) :
          (togglePublishStatusSave(r) /\ r.target \in DOMAIN videos)
          => /\ r.actor = videos[r.target].owner
             /\ videos'[r.target].isPublished = ~videos[r.target].isPublished]_vars

====
